---- MODULE Spec2Model ----
(***************************************************************************)
(* Model of the fashion search engine's embedding backfill                 *)
(* (src/embedding/items.py), of the feature upsert                         *)
(* (src/database/schemas.py) and of the vector search (src/search).        *)
(*                                                                         *)
(* Tables are functions keyed by sku; a sku without a row is outside the   *)
(* function's domain.  A vector is a tuple and SQL NULL / Python None is   *)
(* the empty tuple.  In the backfill a vector records which encoder made   *)
(* it and from which source, <<"st", <<"texts", "A">>>>, so that a vector  *)
(* stored under the wrong sku or slot is visible.                          *)
(***************************************************************************)
EXTENDS Integers, Sequences, FiniteSets, TLC

VARIABLES
    attributes,   \* item.attributes: sku -> row
    files,        \* the image files present under IMAGE_DIR: {<<sku, key>>}
    features,     \* item.features as committed: sku -> [slot -> vector or NULL]
    pending,      \* rows written by the open upsert transaction, not yet committed
    pc,           \* where the backfill run is
    batch_size,   \* embed's batch_size argument of the current run
    records,      \* the rows the run's SELECT returned
    batchNo,      \* which record_batch of the run is being processed (1-based)
    sku_payload,  \* embed's sku_payload of the current batch: sku -> dict
    batch_idx,    \* upsert_to_features' batch_idx (database batches executed)
    snapshot,     \* history: item.features as the run's SELECT saw it
    embedCalls,   \* history: encoder calls made by the run, per encoder
    embedded,     \* history: {<<sku, slot>>} whose source the run sent to an encoder
    executed,     \* history: execute_values statements issued by the run
    crashAt,      \* history: the step a crashed run was killed in
    resumed,      \* history: the run was started after a crashed one
    processed,    \* history: sku -> the record_batches of the run that held it
    uncommitted,  \* history: database batches executed since the last commit
    otherWrites,  \* history: the skus another writer has filled
    embedder,     \* the CLIP text encoder the color module has loaded
    colorJob,     \* the outcome of the last run of the color-mapping job
    colors,       \* item.colors: source_color -> target_color
    upsertArg,    \* the record of the last direct upsert_to_features call
    searchCall,   \* the arguments of the last search call
    result        \* what the last search call returned

catalogVars == <<attributes, files, colors>>

runVars == <<pc, batch_size, records, batchNo, sku_payload, batch_idx, snapshot,
             embedCalls, embedded, executed, crashAt, resumed, processed,
             uncommitted>>

envVars == <<otherWrites, embedder, colorJob>>

callVars == <<upsertArg, searchCall, result>>

vars == <<catalogVars, envVars, features, pending, runVars, callVars>>

----------------------------------------------------------------------------
(* Bounds and program constants *)

Skus == {"A", "B"}

\* embed's batch_size is a command-line argument (default 2048): 1..MaxBatchSize
MaxBatchSize == 2

\* embed passes batch_size=256 to upsert_to_features; scaled down so that one
\* payload spans several database batches
DbBatchSize == 1

commit_every == 5

----------------------------------------------------------------------------
(* Values *)

NULL == <<>>

Slots == {"clip_image1", "clip_image2", "clip_text", "st_text"}

ImageKeys == {"image1", "image2"}

\* f"clip_{key}"
ClipSlot(key) == IF key = "image1" THEN "clip_image1" ELSE "clip_image2"

NullRow == [slot \in Slots |-> NULL]

EmptyTable == [s \in {} |-> NullRow]

EmptyDict == [k \in {} |-> NULL]

\* dict[k] = v
DictSet(d, k, v) == [x \in DOMAIN d \cup {k} |-> IF x = k THEN v ELSE d[x]]

\* dict.get(k)
DictGet(d, k) == IF k \in DOMAIN d THEN d[k] ELSE NULL

Min2(a, b) == IF a < b THEN a ELSE b

\* mutant: every batch starts at the head of the sequence
Batched_FromHead(seq, n, k) == SubSeq(seq, 1, Min2(n, Len(seq) - (k - 1) * n))

\* the k-th tuple of itertools.batched(seq, n)
Batched(seq, n, k) == SubSeq(seq, (k - 1) * n + 1, Min2(k * n, Len(seq)))

\* (total + n - 1) // n
TotalBatches(total, n) == (total + n - 1) \div n

\* every order in which a SELECT without ORDER BY may return the rows S
Orderings(S) ==
    {f \in [1..Cardinality(S) -> S] : \A i, j \in DOMAIN f : i # j => f[i] # f[j]}

----------------------------------------------------------------------------
(* The encoders: one vector per input, in input order *)

TextOf(sku) == <<"texts", sku>>

EmptyText == <<>>

PathOf(sku, key) == <<sku, key>>

STEncodeTexts(texts) == [i \in 1..Len(texts) |-> <<"st", texts[i]>>]

ClipEncodeTexts(texts) == [i \in 1..Len(texts) |-> <<"clip", texts[i]>>]

ClipEncodeImages(paths) == [i \in 1..Len(paths) |-> <<"clip", paths[i]>>]

\* the vector a slot of sku holds when it was embedded from sku's own source
OwnVector(sku, slot) ==
    CASE slot = "st_text" -> <<"st", TextOf(sku)>>
      [] slot = "clip_text" -> <<"clip", TextOf(sku)>>
      [] slot = "clip_image1" -> <<"clip", PathOf(sku, "image1")>>
      [] slot = "clip_image2" -> <<"clip", PathOf(sku, "image2")>>

----------------------------------------------------------------------------
(* item.features: the missing-embeddings query and the upsert statement *)

\* A LEFT JOIN F ON F.sku = A.sku: the F columns of an A row without F row are NULL
LeftJoinFeatures(F, sku) == IF sku \in DOMAIN F THEN F[sku] ELSE NullRow

\* mutant: an INNER JOIN, which drops the items without a feature row
SelectMissing_InnerJoin(A, F) ==
    {sku \in DOMAIN A : sku \in DOMAIN F /\ \E slot \in Slots : F[sku][slot] = NULL}

\* mutant: the WHERE clause left out, every item is selected
SelectMissing_NoWhere(A, F) == DOMAIN A

\* mutant: AND for OR, only the items with all four slots null are selected
SelectMissing_AllNull(A, F) ==
    {sku \in DOMAIN A : \A slot \in Slots : LeftJoinFeatures(F, sku)[slot] = NULL}

\* WHERE F.clip_image1 IS NULL OR F.clip_image2 IS NULL OR F.clip_text IS NULL
\*    OR F.st_text IS NULL
SelectMissing(A, F) ==
    {sku \in DOMAIN A : \E slot \in Slots : LeftJoinFeatures(F, sku)[slot] = NULL}

\* ON CONFLICT (sku) DO UPDATE SET clip_image1 = EXCLUDED.clip_image1, ...
OnConflictUpdate(old, excluded) == [slot \in Slots |-> excluded[slot]]

\* the values tuple upsert_to_features builds from one record: record.get(slot)
ValuesOf(record) == [slot \in Slots |-> DictGet(record.vecs, slot)]

\* INSERT INTO item.features ... VALUES %s ON CONFLICT ...: one statement over the
\* rows of one database batch, on the table as the transaction sees it
ExecuteValues(table, batch) ==
    LET skus == {batch[i].sku : i \in 1..Len(batch)}
        rec(s) == batch[CHOOSE i \in 1..Len(batch) : batch[i].sku = s]
    IN  [s \in DOMAIN table \cup skus |->
            IF s \notin skus THEN table[s]
            ELSE IF s \in DOMAIN table
                 THEN OnConflictUpdate(table[s], ValuesOf(rec(s)))
                 ELSE ValuesOf(rec(s))]

\* item.features as the open transaction sees it
TxnView == [s \in DOMAIN features \cup DOMAIN pending |->
               IF s \in DOMAIN pending THEN pending[s] ELSE features[s]]

\* mutant: only the last batch commits
CommitDue_LastOnly(idx, total) == idx = total

\* if batch_idx % commit_every == 0 or batch_idx == total_batches
CommitDue(idx, total) == idx % commit_every = 0 \/ idx = total

----------------------------------------------------------------------------
(* embed: one record_batch *)

RecordBatch == Batched(records, batch_size, batchNo)

\* sku_payload = {record["sku"]: {"sku": record["sku"]} for record in record_batch}
NewPayload(batch) == [s \in {batch[i].sku : i \in 1..Len(batch)} |-> EmptyDict]

\* text_list = [text for _, text in text_jobs if text]
TextList(batch) ==
    LET RECURSIVE go(_)
        go(i) == IF i > Len(batch) THEN <<>>
                 ELSE (IF batch[i].texts # EmptyText THEN <<batch[i].texts>> ELSE <<>>)
                      \o go(i + 1)
    IN  go(1)

\* mutant: zip(record_batch, vectors), the k-th vector goes to the k-th record
AssignTexts_Zip(payload, batch, slot, vectors) ==
    LET RECURSIVE go(_, _)
        go(p, i) ==
            IF i > Min2(Len(batch), Len(vectors)) THEN p
            ELSE go([p EXCEPT ![batch[i].sku] = DictSet(@, slot, vectors[i])], i + 1)
    IN  go(payload, 1)

\* the loop "for sku, text in text_jobs: if text: sku_payload[sku][slot] =
\* vectors[text_idx]; text_idx += 1"
AssignTexts(payload, batch, slot, vectors) ==
    LET RECURSIVE go(_, _, _)
        go(p, i, text_idx) ==
            IF i > Len(batch) THEN p
            ELSE IF batch[i].texts # EmptyText
                 THEN go([p EXCEPT ![batch[i].sku] = DictSet(@, slot, vectors[text_idx])],
                         i + 1, text_idx + 1)
                 ELSE go(p, i + 1, text_idx)
    IN  go(payload, 1, 1)

\* mutant: image2.jpeg is never looked for
ImageKeyList_FirstOnly(batch) ==
    LET keysOf(sku) ==
            IF PathOf(sku, "image1") \in files THEN <<<<sku, "image1">>>> ELSE <<>>
        RECURSIVE go(_)
        go(i) == IF i > Len(batch) THEN <<>> ELSE keysOf(batch[i].sku) \o go(i + 1)
    IN  go(1)

\* image_keys, in the order the loop over record_batch appends them
ImageKeyList(batch) ==
    LET keysOf(sku) ==
            (IF PathOf(sku, "image1") \in files THEN <<<<sku, "image1">>>> ELSE <<>>)
            \o (IF PathOf(sku, "image2") \in files THEN <<<<sku, "image2">>>> ELSE <<>>)
        RECURSIVE go(_)
        go(i) == IF i > Len(batch) THEN <<>> ELSE keysOf(batch[i].sku) \o go(i + 1)
    IN  go(1)

\* image_paths: the path of every entry of image_keys
ImagePathList(keys) == [i \in 1..Len(keys) |-> PathOf(keys[i][1], keys[i][2])]

\* for (sku, key), vector in zip(image_keys, image_vectors):
\*     sku_payload[sku][f"clip_{key}"] = vector
AssignImages(payload, keys, vectors) ==
    LET RECURSIVE go(_, _)
        go(p, i) ==
            IF i > Min2(Len(keys), Len(vectors)) THEN p
            ELSE go([p EXCEPT ![keys[i][1]] = DictSet(@, ClipSlot(keys[i][2]), vectors[i])],
                    i + 1)
    IN  go(payload, 1)

\* payload = list(sku_payload.values()): the dicts in insertion order
PayloadList(batch, payload) ==
    [i \in 1..Len(batch) |-> [sku |-> batch[i].sku, vecs |-> payload[batch[i].sku]]]

----------------------------------------------------------------------------
(* The backfill run, step by step *)

NoCalls == [st |-> 0, clip_text |-> 0, clip_image |-> 0]

NoCall == [kind |-> "none"]

NoneProcessed == [s \in {} |-> 0]

\* dict-style counter: the count of sku one up
CountUp(counts, skus) ==
    [s \in DOMAIN counts \cup skus |->
        (IF s \in DOMAIN counts THEN counts[s] ELSE 0) + (IF s \in skus THEN 1 ELSE 0)]

NoEmbedder == <<>>

\* no run of the color-mapping job yet; catalog is item.attributes as the last
\* run read it
NoJob == [runs |-> 0, raised |-> FALSE, catalog |-> <<>>]

\* The stores the pipeline can have produced: it writes st_text and clip_text
\* together (from the same texts field) and each image slot on its own.
SlotSets ==
    {have \in SUBSET Slots : ("st_text" \in have) <=> ("clip_text" \in have)}

Stores ==
    UNION {[S -> {[slot \in Slots |-> IF slot \in have THEN <<"x">> ELSE NULL] :
                      have \in SlotSets}] : S \in SUBSET Skus}

Own(F) == [s \in DOMAIN F |->
              [slot \in Slots |-> IF F[s][slot] = NULL THEN NULL ELSE OwnVector(s, slot)]]

PipelineIdle ==
    /\ pending = EmptyTable
    /\ pc = "idle"
    /\ batch_size = 1
    /\ records = <<>>
    /\ batchNo = 0
    /\ sku_payload = EmptyTable
    /\ batch_idx = 0
    /\ snapshot = EmptyTable
    /\ embedCalls = NoCalls
    /\ embedded = {}
    /\ executed = 0
    /\ crashAt = "none"
    /\ resumed = FALSE
    /\ processed = NoneProcessed
    /\ uncommitted = 0
    /\ otherWrites = {}

RunIdle ==
    /\ PipelineIdle
    /\ embedder = NoEmbedder
    /\ colorJob = NoJob

NoApiCall ==
    /\ upsertArg = NoCall
    /\ searchCall = NoCall
    /\ result = <<>>

Init ==
    /\ \E withTexts \in SUBSET Skus :
          attributes = [s \in Skus |->
                           [texts |-> IF s \in withTexts THEN TextOf(s) ELSE EmptyText]]
    /\ files \in SUBSET (Skus \X ImageKeys)
    /\ colors = <<>>
    /\ \E F \in Stores : features = Own(F)
    /\ RunIdle
    /\ NoApiCall

RunOver == pc \in {"idle", "done", "failed", "crashed"}

\* embed(batch_size): the SELECT of lines 26-43 and, when it returns nothing, the
\* loop that does not run and the final echo.
Select(bs) ==
    /\ RunOver
    /\ \E order \in Orderings(SelectMissing(attributes, features)) :
          /\ records' = [i \in DOMAIN order |->
                            [sku |-> order[i], texts |-> attributes[order[i]].texts]]
          /\ pc' = IF Len(order) = 0 THEN "done" ELSE "text"
          /\ batchNo' = IF Len(order) = 0 THEN 0 ELSE 1
    /\ batch_size' = bs
    /\ sku_payload' = EmptyTable
    /\ batch_idx' = 0
    /\ snapshot' = features
    /\ embedCalls' = NoCalls
    /\ embedded' = {}
    /\ executed' = 0
    /\ crashAt' = "none"
    /\ resumed' = (pc = "crashed")
    /\ processed' = NoneProcessed
    /\ uncommitted' = 0
    /\ UNCHANGED <<catalogVars, envVars, callVars, features, pending>>

TextSkus(batch) == {batch[i].sku : i \in {j \in 1..Len(batch) : batch[j].texts # EmptyText}}

\* lines 53-76: both text encoders succeed (or there is no text to encode)
EmbedTexts ==
    /\ pc = "text"
    /\ LET batch == RecordBatch
           text_list == TextList(batch)
           p0 == NewPayload(batch)
       IN  IF text_list # <<>>
           THEN /\ sku_payload' =
                      AssignTexts(AssignTexts(p0, batch, "st_text", STEncodeTexts(text_list)),
                                  batch, "clip_text", ClipEncodeTexts(text_list))
                /\ embedCalls' = [embedCalls EXCEPT !.st = @ + 1, !.clip_text = @ + 1]
                /\ embedded' = embedded \cup (TextSkus(batch) \X {"st_text", "clip_text"})
           ELSE /\ sku_payload' = p0
                /\ UNCHANGED <<embedCalls, embedded>>
    /\ pc' = "image"
    /\ processed' = CountUp(processed, {RecordBatch[i].sku : i \in 1..Len(RecordBatch)})
    /\ UNCHANGED <<catalogVars, envVars, callVars, features, pending, batch_size, records,
                   batchNo, batch_idx, snapshot, executed, crashAt, resumed, uncommitted>>

\* line 64: st_embedder.encode_texts raises; nothing catches it and embed ends
STEncoderRaises ==
    /\ pc = "text"
    /\ TextList(RecordBatch) # <<>>
    /\ sku_payload' = NewPayload(RecordBatch)
    /\ embedCalls' = [embedCalls EXCEPT !.st = @ + 1]
    /\ embedded' = embedded \cup (TextSkus(RecordBatch) \X {"st_text"})
    /\ pc' = "failed"
    /\ processed' = CountUp(processed, {RecordBatch[i].sku : i \in 1..Len(RecordBatch)})
    /\ UNCHANGED <<catalogVars, envVars, callVars, features, pending, batch_size, records,
                   batchNo, batch_idx, snapshot, executed, crashAt, resumed, uncommitted>>

\* line 71: clip_embedder.encode_texts raises after the st vectors were assigned
ClipTextEncoderRaises ==
    /\ pc = "text"
    /\ TextList(RecordBatch) # <<>>
    /\ sku_payload' = AssignTexts(NewPayload(RecordBatch), RecordBatch, "st_text",
                                  STEncodeTexts(TextList(RecordBatch)))
    /\ embedCalls' = [embedCalls EXCEPT !.st = @ + 1, !.clip_text = @ + 1]
    /\ embedded' = embedded \cup (TextSkus(RecordBatch) \X {"st_text", "clip_text"})
    /\ pc' = "failed"
    /\ processed' = CountUp(processed, {RecordBatch[i].sku : i \in 1..Len(RecordBatch)})
    /\ UNCHANGED <<catalogVars, envVars, callVars, features, pending, batch_size, records,
                   batchNo, batch_idx, snapshot, executed, crashAt, resumed, uncommitted>>

ImageSlots(keys) == {<<keys[i][1], ClipSlot(keys[i][2])>> : i \in 1..Len(keys)}

\* lines 78-99: the image encoder succeeds (or no file exists); upsert_to_features
\* is entered with the batch's payload
EmbedImages ==
    /\ pc = "image"
    /\ LET image_keys == ImageKeyList(RecordBatch)
           image_paths == ImagePathList(image_keys)
       IN  IF image_paths # <<>>
           THEN /\ sku_payload' =
                      AssignImages(sku_payload, image_keys, ClipEncodeImages(image_paths))
                /\ embedCalls' = [embedCalls EXCEPT !.clip_image = @ + 1]
                /\ embedded' = embedded \cup ImageSlots(image_keys)
           ELSE UNCHANGED <<sku_payload, embedCalls, embedded>>
    /\ pc' = "execute"
    /\ batch_idx' = 0
    /\ uncommitted' = 0
    /\ UNCHANGED <<catalogVars, envVars, callVars, features, pending, batch_size, records,
                   batchNo, snapshot, executed, crashAt, resumed, processed>>

\* line 93: clip_embedder.encode_images raises; nothing catches it and embed ends
ImageEncoderRaises ==
    /\ pc = "image"
    /\ ImageKeyList(RecordBatch) # <<>>
    /\ embedCalls' = [embedCalls EXCEPT !.clip_image = @ + 1]
    /\ embedded' = embedded \cup ImageSlots(ImageKeyList(RecordBatch))
    /\ pc' = "failed"
    /\ UNCHANGED <<catalogVars, envVars, callVars, features, pending, batch_size, records,
                   batchNo, sku_payload, batch_idx, snapshot, executed, crashAt,
                   resumed, processed, uncommitted>>

\* upsert_to_features' records argument and its total_batches
UpsertRecords == PayloadList(RecordBatch, sku_payload)

DbTotalBatches == TotalBatches(Len(UpsertRecords), DbBatchSize)

\* the rows in which the transaction's view differs from the committed table
Uncommitted(view) ==
    [s \in {x \in DOMAIN view : x \notin DOMAIN features \/ view[x] # features[x]} |->
        view[s]]

\* schemas.py lines 205-246: the next database batch is built and executed
ExecuteBatch ==
    /\ pc = "execute"
    /\ batch_idx' = batch_idx + 1
    /\ pending' = Uncommitted(ExecuteValues(TxnView,
                                 Batched(UpsertRecords, DbBatchSize, batch_idx + 1)))
    /\ executed' = executed + 1
    /\ uncommitted' = uncommitted + 1
    /\ pc' = "commit"
    /\ UNCHANGED <<catalogVars, envVars, callVars, features, batch_size, records, batchNo,
                   sku_payload, snapshot, embedCalls, embedded, crashAt, resumed,
                   processed>>

\* schemas.py lines 248-252 and the return into embed's loop: the conditional
\* commit, then the next database batch, or the closing commit and the next
\* record_batch (or the final echo)
CommitStep ==
    /\ pc = "commit"
    /\ IF CommitDue(batch_idx, DbTotalBatches) \/ batch_idx >= DbTotalBatches
       THEN features' = TxnView /\ pending' = EmptyTable /\ uncommitted' = 0
       ELSE UNCHANGED <<features, pending, uncommitted>>
    /\ IF batch_idx < DbTotalBatches
       THEN /\ pc' = "execute"
            /\ UNCHANGED batchNo
       ELSE /\ pc' = IF batchNo < TotalBatches(Len(records), batch_size)
                     THEN "text" ELSE "done"
            /\ batchNo' = IF batchNo < TotalBatches(Len(records), batch_size)
                          THEN batchNo + 1 ELSE batchNo
    /\ UNCHANGED <<catalogVars, envVars, callVars, batch_size, records, sku_payload,
                   batch_idx, snapshot, embedCalls, embedded, executed, crashAt, resumed,
                   processed>>

\* the process is killed: its memory is gone and the server rolls the open
\* transaction back
Crash ==
    /\ pc \in {"text", "image", "execute", "commit"}
    /\ pc' = "crashed"
    /\ crashAt' = pc
    /\ pending' = EmptyTable
    /\ batch_size' = 1
    /\ records' = <<>>
    /\ batchNo' = 0
    /\ sku_payload' = EmptyTable
    /\ batch_idx' = 0
    /\ snapshot' = EmptyTable
    /\ embedCalls' = NoCalls
    /\ embedded' = {}
    /\ executed' = 0
    /\ processed' = NoneProcessed
    /\ uncommitted' = 0
    /\ UNCHANGED <<catalogVars, envVars, callVars, features, resumed>>

Next ==
    \/ \E bs \in 1..MaxBatchSize : Select(bs)
    \/ EmbedTexts
    \/ STEncoderRaises
    \/ ClipTextEncoderRaises
    \/ EmbedImages
    \/ ImageEncoderRaises
    \/ ExecuteBatch
    \/ CommitStep
    \/ Crash

Spec == Init /\ [][Next]_vars

----------------------------------------------------------------------------
(* Properties of the backfill run, checked under Spec *)

Selected == {records[i].sku : i \in 1..Len(records)}

\* the run's SELECT has been executed and its process is still there to be looked at
RunStarted == pc \notin {"idle", "crashed"}

Complete(F, sku) == sku \in DOMAIN F /\ \A slot \in Slots : F[sku][slot] # NULL

\* the texts field is non-empty / the image file exists
SourceAvailable(sku, slot) ==
    CASE slot \in {"st_text", "clip_text"} -> attributes[sku].texts # EmptyText
      [] slot = "clip_image1" -> PathOf(sku, "image1") \in files
      [] slot = "clip_image2" -> PathOf(sku, "image2") \in files

\* C2: across backfill runs a vector slot that is non-null in the store never
\* becomes null, also when the slot's source is gone and the item was selected
\* for another slot.
C2_NonNullStaysNonNull ==
    [][\A sku \in DOMAIN features : \A slot \in Slots :
          features[sku][slot] # NULL =>
              sku \in DOMAIN features' /\ features'[sku][slot] # NULL]_vars

\* C3: a run sends to an encoder only the sources of slots that were null when
\* the run selected the item; a slot that was present is not embedded again.
C3_OnlyNullSlotsEmbedded ==
    \A e \in embedded : LeftJoinFeatures(snapshot, e[1])[e[2]] = NULL

\* C4: the items a run selects are exactly the attribute rows whose feature row
\* is absent or has a null slot, each once: a complete item is never selected,
\* an item with a null slot always is.
C4_SelectionExact ==
    RunStarted =>
        /\ Selected = {sku \in DOMAIN attributes :
                          sku \notin DOMAIN snapshot
                          \/ \E slot \in Slots : snapshot[sku][slot] = NULL}
        /\ Len(records) = Cardinality(Selected)

\* a run selected an item without feature row and left a complete item out
C4_Witness ==
    /\ pc = "text"
    /\ \E sku \in Selected : sku \notin DOMAIN snapshot
    /\ \E sku \in Skus \ Selected : Complete(snapshot, sku)

\* C5: when every item has all four slots, a run makes no text-encoder call, no
\* image-encoder call and no upsert, and leaves the store as it was.
C5_CompleteStoreNoWork ==
    (RunStarted /\ \A sku \in DOMAIN attributes : Complete(snapshot, sku)) =>
        /\ pc = "done"
        /\ embedCalls = NoCalls
        /\ embedded = {}
        /\ executed = 0
        /\ features = snapshot
        /\ pending = EmptyTable

\* a run over a complete store has ended
C5_Witness ==
    /\ pc = "done"
    /\ records = <<>>
    /\ \A sku \in Skus : Complete(snapshot, sku)

\* C6 as claimed: when a run finishes normally no item has an absent feature row
\* or a null slot.
C6_DoneMeansComplete ==
    pc = "done" => \A sku \in DOMAIN attributes : Complete(features, sku)

\* C6 as amended: a run is one select-embed-upsert pass; when it finishes
\* normally every item has a feature row, and a slot is null only if its source
\* (the texts field, the image file) was not there to embed.
C6_DoneFilledWhereSourceExists ==
    pc = "done" =>
        \A sku \in DOMAIN attributes :
            /\ sku \in DOMAIN features
            /\ \A slot \in Slots :
                   features[sku][slot] = NULL => ~SourceAvailable(sku, slot)

\* a run that upserted has finished and an item still has a null slot
C6_Witness ==
    /\ pc = "done"
    /\ executed > 0
    /\ \E sku \in Selected : \E slot \in Slots :
           features[sku][slot] = NULL /\ ~SourceAvailable(sku, slot)

\* C7: a crash loses no committed slot value, and the run started after a crash
\* selects every item that has an absent row or a null slot in committed storage.
C7_CrashResume ==
    [][/\ (pc # "crashed" /\ pc' = "crashed") => features' = features
       /\ (pc = "crashed" /\ pc' # "crashed") =>
              /\ features' = features
              /\ \A sku \in DOMAIN attributes :
                     (sku \notin DOMAIN features
                      \/ \E slot \in Slots : features[sku][slot] = NULL)
                         => \E i \in 1..Len(records') : records'[i].sku = sku]_vars

\* a run resumed after a crash and selected an item that has a committed slot
\* and a null one
C7_Witness ==
    /\ resumed
    /\ pc = "text"
    /\ \E sku \in Selected :
           /\ sku \in DOMAIN features
           /\ \E slot \in Slots : features[sku][slot] = NULL
           /\ \E slot \in Slots : features[sku][slot] # NULL

\* C8: when one encoder call fails for a batch, the vectors the batch did get
\* are upserted and committed, and the run goes on to its remaining batches.
C8_PartialFailureCommitted ==
    pc = "failed" =>
        /\ \A sku \in DOMAIN sku_payload : \A slot \in DOMAIN sku_payload[sku] :
               sku \in DOMAIN features /\ features[sku][slot] = sku_payload[sku][slot]
        /\ batchNo = TotalBatches(Len(records), batch_size)

----------------------------------------------------------------------------
(* upsert_to_features called directly, with one record *)

\* a statement that names one sku twice is rejected by the server (ON CONFLICT DO
\* UPDATE cannot affect a row a second time)
HasDuplicateSku(batch) ==
    \E i, j \in 1..Len(batch) : i # j /\ batch[i].sku = batch[j].sku

\* upsert_to_features(records, batch_size), from entry to return (or to the
\* exception of a rejected statement, which rolls the open transaction back):
\* the committed table it leaves
UpsertToFeatures(F, recs, n) ==
    LET total == TotalBatches(Len(recs), n)
        RECURSIVE go(_, _, _)
        go(committed, view, idx) ==
            IF idx >= total THEN view
            ELSE LET batch == Batched(recs, n, idx + 1)
                 IN  IF HasDuplicateSku(batch) THEN committed
                     ELSE LET v == ExecuteValues(view, batch)
                          IN  go(IF CommitDue(idx + 1, total) THEN v ELSE committed,
                                 v, idx + 1)
    IN  IF Len(recs) = 0 THEN F ELSE go(F, F, 0)

\* the vector a caller supplies for a slot
SuppliedVector(slot) == <<"v", slot>>

\* the records a caller can pass: a sku and any subset of the four vectors
Payloads ==
    {[sku |-> sku, vecs |-> [slot \in have |-> SuppliedVector(slot)]] :
        sku \in Skus, have \in SUBSET Slots}

InitUpsert ==
    /\ attributes = [s \in Skus |-> [texts |-> TextOf(s)]]
    /\ files = {}
    /\ colors = <<>>
    /\ features = EmptyTable
    /\ RunIdle
    /\ NoApiCall

\* upsert_to_features(record, batch_size) with a single dict, which line 179
\* wraps into a list
UpsertCall(record, n) ==
    /\ features' = UpsertToFeatures(features, <<record>>, n)
    /\ upsertArg' = [kind |-> "upsert", sku |-> record.sku, vecs |-> record.vecs]
    /\ UNCHANGED <<catalogVars, envVars, pending, runVars, searchCall, result>>

NextUpsert == \E record \in Payloads, n \in 1..MaxBatchSize : UpsertCall(record, n)

SpecUpsert == InitUpsert /\ [][NextUpsert]_vars

\* C1: a slot the payload does not supply keeps the value the row had before
\* the call.
C1_UnsuppliedSlotsKept ==
    [][upsertArg'.kind = "upsert" =>
          LET sku == upsertArg'.sku
          IN  sku \in DOMAIN features =>
                  \A slot \in Slots \ DOMAIN upsertArg'.vecs :
                      features'[sku][slot] = features[sku][slot]]_vars

----------------------------------------------------------------------------
(* Search: src/search/query.py (Query) and src/search/main.py (Engine) *)

\* In the search model a stored or query vector is a unit vector with integer
\* components, None is NULL, and an Optional value x is <<x>>.  Weights are in
\* tenths, so a fused score is in tenths of a similarity.
Some(x) == <<x>>

None == <<>>

Units == {<<1, 0>>, <<0, 1>>}

Dot(a, b) == a[1] * b[1] + a[2] * b[2]

\* pgvector's a <=> b, the cosine distance, of two unit vectors
CosineDistance(a, b) == 1 - Dot(a, b)

\* the query texts and what the two encoders make of them
QueryTexts == {"q1", "q2"}

ClipQueryVector(q_text) == IF q_text = "q1" THEN <<1, 0>> ELSE <<-1, 0>>

STQueryVector(q_text) == IF q_text = "q1" THEN <<0, 1>> ELSE <<1, 0>>

\* LIMIT k: 1..MaxK
MaxK == 2

\* the (clip_weight, st_weight) pairs a caller passes: the defaults of
\* Query.search_text, those of Engine.search_text, and an uneven pair
WeightPairs == {<<5, 5>>, <<3, 7>>, <<8, 2>>}

\* the catalog of the search model
Catalog ==
    [s \in Skus |->
        IF s = "A"
        THEN [title |-> "t-A", brand |-> "nike", category |-> "shoes",
              color |-> "crimson", price |-> 40, url |-> "u-A", image |-> "i-A",
              text |-> "x-A", texts |-> TextOf(s)]
        ELSE [title |-> "t-B", brand |-> "adidas", category |-> "shoes",
              color |-> "navy", price |-> 120, url |-> "u-B", image |-> "i-B",
              text |-> "x-B", texts |-> TextOf(s)]]

ColorTable == [c \in {"crimson", "navy"} |-> IF c = "crimson" THEN "red" ELSE "blue"]

NoFilters == [none |-> TRUE]

EmptyFilters ==
    [brand |-> None, category |-> None, color |-> None, min_price |-> None,
     max_price |-> None]

\* the filters argument of the searches of this model
FilterValues == {NoFilters, EmptyFilters, [EmptyFilters EXCEPT !.max_price = Some(100)]}

\* mutant: an absent max_price is read as 0
parse_filters_NoneAsZero(filters) ==
    IF filters = NoFilters THEN <<>>
    ELSE (IF filters.brand # None
          THEN <<[column |-> "A.brand", op |-> "=", param |-> filters.brand[1]]>>
          ELSE <<>>)
         \o (IF filters.category # None
             THEN <<[column |-> "A.category", op |-> "=", param |-> filters.category[1]]>>
             ELSE <<>>)
         \o (IF filters.color # None
             THEN <<[column |-> "C.target_color", op |-> "=", param |-> filters.color[1]]>>
             ELSE <<>>)
         \o (IF filters.min_price # None
             THEN <<[column |-> "A.price", op |-> ">=", param |-> filters.min_price[1]]>>
             ELSE <<>>)
         \o <<[column |-> "A.price", op |-> "<=",
               param |-> IF filters.max_price # None THEN filters.max_price[1] ELSE 0]>>

\* mutant: "if filters.brand:" for "if filters.brand is not None:", and so on;
\* a value of 0 or "" adds no clause
parse_filters_Truthy(filters) ==
    LET Set(v) == v # None /\ v # Some(0) /\ v # Some("")
    IN  IF filters = NoFilters THEN <<>>
        ELSE (IF Set(filters.brand)
              THEN <<[column |-> "A.brand", op |-> "=", param |-> filters.brand[1]]>>
              ELSE <<>>)
             \o (IF Set(filters.category)
                 THEN <<[column |-> "A.category", op |-> "=",
                        param |-> filters.category[1]]>>
                 ELSE <<>>)
             \o (IF Set(filters.color)
                 THEN <<[column |-> "C.target_color", op |-> "=",
                        param |-> filters.color[1]]>>
                 ELSE <<>>)
             \o (IF Set(filters.min_price)
                 THEN <<[column |-> "A.price", op |-> ">=",
                        param |-> filters.min_price[1]]>>
                 ELSE <<>>)
             \o (IF Set(filters.max_price)
                 THEN <<[column |-> "A.price", op |-> "<=",
                        param |-> filters.max_price[1]]>>
                 ELSE <<>>)

\* parse_filters: the clauses, each with the parameter bound to its %s
parse_filters(filters) ==
    IF filters = NoFilters THEN <<>>
    ELSE (IF filters.brand # None
          THEN <<[column |-> "A.brand", op |-> "=", param |-> filters.brand[1]]>>
          ELSE <<>>)
         \o (IF filters.category # None
             THEN <<[column |-> "A.category", op |-> "=", param |-> filters.category[1]]>>
             ELSE <<>>)
         \o (IF filters.color # None
             THEN <<[column |-> "C.target_color", op |-> "=", param |-> filters.color[1]]>>
             ELSE <<>>)
         \o (IF filters.min_price # None
             THEN <<[column |-> "A.price", op |-> ">=", param |-> filters.min_price[1]]>>
             ELSE <<>>)
         \o (IF filters.max_price # None
             THEN <<[column |-> "A.price", op |-> "<=", param |-> filters.max_price[1]]>>
             ELSE <<>>)

\* mutant: the color clause reads the item's own color
ColumnValue_RawColor(column, sku) ==
    CASE column = "A.brand" -> Some(attributes[sku].brand)
      [] column = "A.category" -> Some(attributes[sku].category)
      [] column = "A.price" -> Some(attributes[sku].price)
      [] column = "C.target_color" -> Some(attributes[sku].color)

\* the value of a clause's column in the row of sku after
\* INNER JOIN item.attributes AS A / LEFT JOIN item.colors AS C
ColumnValue(column, sku) ==
    CASE column = "A.brand" -> Some(attributes[sku].brand)
      [] column = "A.category" -> Some(attributes[sku].category)
      [] column = "A.price" -> Some(attributes[sku].price)
      [] column = "C.target_color" ->
            IF attributes[sku].color \in DOMAIN colors
            THEN Some(colors[attributes[sku].color]) ELSE None

\* mutant: the price bounds are exclusive
ClauseHolds_Strict(clause, sku) ==
    LET v == ColumnValue(clause.column, sku)
    IN  /\ v # None
        /\ CASE clause.op = "=" -> v[1] = clause.param
             [] clause.op = ">=" -> v[1] > clause.param
             [] clause.op = "<=" -> v[1] < clause.param

\* mutant: a row without a value in the column passes the clause
ClauseHolds_NullPasses(clause, sku) ==
    LET v == ColumnValue(clause.column, sku)
    IN  \/ v = None
        \/ CASE clause.op = "=" -> v[1] = clause.param
             [] clause.op = ">=" -> v[1] >= clause.param
             [] clause.op = "<=" -> v[1] <= clause.param

\* a clause is true of the row (a comparison with NULL is not true)
ClauseHolds(clause, sku) ==
    LET v == ColumnValue(clause.column, sku)
    IN  /\ v # None
        /\ CASE clause.op = "=" -> v[1] = clause.param
             [] clause.op = ">=" -> v[1] >= clause.param
             [] clause.op = "<=" -> v[1] <= clause.param

\* WHERE 1=1 {filters_sql}
WhereHolds(clauses, sku) == \A i \in 1..Len(clauses) : ClauseHolds(clauses[i], sku)

\* mutant: the two weights exchanged
Weighted_Swapped(clip_score, st_score, clip_weight, st_weight) ==
    clip_score * st_weight + st_score * clip_weight

\* S.clip_score * {clip_weight} + S.st_score * {st_weight}
Weighted(clip_score, st_score, clip_weight, st_weight) ==
    clip_score * clip_weight + st_score * st_weight

\* the scores and weighted CTEs of a text search that scores the CLIP query
\* vector against clip_slot, joined with item.attributes and filtered
TextSearchRows(clip_slot, q_text, filters, clip_weight, st_weight) ==
    LET scored == {sku \in DOMAIN features :
                      features[sku][clip_slot] # NULL /\ features[sku]["st_text"] # NULL}
        clip_score(sku) == 1 - CosineDistance(features[sku][clip_slot],
                                              ClipQueryVector(q_text))
        st_score(sku) == 1 - CosineDistance(features[sku]["st_text"],
                                            STQueryVector(q_text))
    IN  {[sku |-> sku,
          clip_score |-> clip_score(sku),
          st_score |-> st_score(sku),
          score |-> Weighted(clip_score(sku), st_score(sku), clip_weight, st_weight)] :
            sku \in {x \in scored \cap DOMAIN attributes :
                        WhereHolds(parse_filters(filters), x)}}

\* mutant: the rows sorted by ascending score
OrderByScoreLimit_Ascending(rows, k) ==
    LET n == Min2(k, Cardinality(rows))
    IN  {f \in [1..n -> rows] :
            /\ \A i, j \in 1..n : i < j => f[i] # f[j] /\ f[i].score <= f[j].score
            /\ \A r \in rows : (\A i \in 1..n : f[i] # r) =>
                                   \A i \in 1..n : f[i].score <= r.score}

\* ORDER BY W.score DESC LIMIT k: every list the server may return (rows of
\* equal score come in any order)
OrderByScoreLimit(rows, k) ==
    LET n == Min2(k, Cardinality(rows))
    IN  {f \in [1..n -> rows] :
            /\ \A i, j \in 1..n : i < j => f[i] # f[j] /\ f[i].score >= f[j].score
            /\ \A r \in rows : (\A i \in 1..n : f[i] # r) =>
                                   \A i \in 1..n : f[i].score >= r.score}

\* the ResultItem list a text search builds from the fetched rows
TextResultItems(rows) ==
    [i \in 1..Len(rows) |->
        [sku |-> rows[i].sku,
         title |-> attributes[rows[i].sku].title,
         category |-> attributes[rows[i].sku].category,
         color |-> attributes[rows[i].sku].color,
         brand |-> attributes[rows[i].sku].brand,
         price |-> attributes[rows[i].sku].price,
         clip_score |-> Some(rows[i].clip_score),
         st_score |-> Some(rows[i].st_score),
         clip_score1 |-> None,
         clip_score2 |-> None,
         score |-> rows[i].score]]

\* Query.search_text (query.py): the CLIP text vector of the query is scored
\* against F.clip_image1
QuerySearchText(q_text, k, filters, clip_weight, st_weight) ==
    {TextResultItems(rows) :
        rows \in OrderByScoreLimit(
                    TextSearchRows("clip_image1", q_text, filters, clip_weight, st_weight),
                    k)}

\* Engine.search_text (main.py): the CLIP text vector of the query is scored
\* against F.clip_text
EngineSearchText(q_text, k, filters, clip_weight, st_weight) ==
    {TextResultItems(rows) :
        rows \in OrderByScoreLimit(
                    TextSearchRows("clip_text", q_text, filters, clip_weight, st_weight),
                    k)}

\* the query images and what the image encoder makes of them
QueryImages == {"img1", "img2"}

ClipImageQueryVector(image) == IF image = "img1" THEN <<1, 0>> ELSE <<0, -1>>

\* 1 - (F.slot <=> clip_v): NULL when the stored vector is NULL
Similarity(stored, query) ==
    IF stored = NULL THEN None ELSE Some(1 - CosineDistance(stored, query))

\* mutant: the first score wins whenever it is there
Greatest_First(a, b) == IF a # None THEN a ELSE b

\* PostgreSQL's GREATEST(a, b): NULL arguments are ignored, the result is NULL
\* only when both are NULL
Greatest(a, b) ==
    CASE a = None -> b
      [] b = None -> a
      [] OTHER -> IF a[1] >= b[1] THEN a ELSE b

\* the scores and weighted CTEs of an image search (no slot is required to be
\* NOT NULL), joined with item.attributes and filtered
ImageSearchRows(image, filters) ==
    LET clip_score1(sku) == Similarity(features[sku]["clip_image1"],
                                       ClipImageQueryVector(image))
        clip_score2(sku) == Similarity(features[sku]["clip_image2"],
                                       ClipImageQueryVector(image))
    IN  {[sku |-> sku,
          clip_score1 |-> clip_score1(sku),
          clip_score2 |-> clip_score2(sku),
          score |-> Greatest(clip_score1(sku), clip_score2(sku))] :
            sku \in {x \in DOMAIN features \cap DOMAIN attributes :
                        WhereHolds(parse_filters(filters), x)}}

\* a comes no later than b under ORDER BY W.score DESC when a score can be
\* NULL: PostgreSQL sorts NULL as larger than every value, so first under DESC
ScoreDescPrecedes(a, b) ==
    \/ a.score = None
    \/ b.score # None /\ a.score[1] >= b.score[1]

\* ORDER BY W.score DESC LIMIT k over rows whose score can be NULL
OrderByScoreNullsFirstLimit(rows, k) ==
    LET n == Min2(k, Cardinality(rows))
    IN  {f \in [1..n -> rows] :
            /\ \A i, j \in 1..n : i < j => f[i] # f[j] /\ ScoreDescPrecedes(f[i], f[j])
            /\ \A r \in rows : (\A i \in 1..n : f[i] # r) =>
                                   \A i \in 1..n : ScoreDescPrecedes(f[i], r)}

\* ResultItem declares score: float, so building one from a row whose score is
\* NULL raises pydantic's ValidationError
ValidationError(rows) == \E i \in 1..Len(rows) : rows[i].score = None

\* the ResultItem list an image search builds from the fetched rows
ImageResultItems(rows) ==
    [i \in 1..Len(rows) |->
        [sku |-> rows[i].sku,
         title |-> attributes[rows[i].sku].title,
         category |-> attributes[rows[i].sku].category,
         color |-> attributes[rows[i].sku].color,
         brand |-> attributes[rows[i].sku].brand,
         price |-> attributes[rows[i].sku].price,
         clip_score |-> None,
         st_score |-> None,
         clip_score1 |-> rows[i].clip_score1,
         clip_score2 |-> rows[i].clip_score2,
         score |-> rows[i].score[1]]]

\* Query.search_image / Engine.search_image (the two are the same statement):
\* every outcome of a call, the list returned or the exception raised
SearchImage(image, k, filters) ==
    {IF ValidationError(rows)
     THEN [raised |-> TRUE, items |-> <<>>]
     ELSE [raised |-> FALSE, items |-> ImageResultItems(rows)] :
        rows \in OrderByScoreNullsFirstLimit(ImageSearchRows(image, filters), k)}

\* the stores the searches run on: any row upsert_to_features can write
SearchStores ==
    UNION {[S -> [Slots -> Units \cup {NULL}]] : S \in SUBSET Skus}

InitSearch ==
    /\ attributes = Catalog
    /\ files = {}
    /\ colors = ColorTable
    /\ features \in SearchStores
    /\ RunIdle
    /\ NoApiCall

\* the values the f-string of a text search formats into the statement text
TextInterpolated(q_text, k, w) ==
    [clip_v |-> ClipQueryVector(q_text), st_v |-> STQueryVector(q_text),
     clip_weight |-> w[1], st_weight |-> w[2], k |-> k]

\* the values the f-string of an image search formats into the statement text
ImageInterpolated(image, k) == [clip_v |-> ClipImageQueryVector(image), k |-> k]

\* params, the second argument of cursor.execute: one value for each %s
BoundParams(clauses) == [i \in 1..Len(clauses) |-> clauses[i].param]

TextCall(kind, q_text, k, filters, w) ==
    [kind |-> kind, q_text |-> q_text, k |-> k, filters |-> filters,
     clip_weight |-> w[1], st_weight |-> w[2],
     clauses |-> parse_filters(filters),
     params |-> BoundParams(parse_filters(filters)),
     interpolated |-> TextInterpolated(q_text, k, w),
     raised |-> FALSE]

ImageCall(kind, image, k, filters, raised) ==
    [kind |-> kind, image |-> image, k |-> k, filters |-> filters,
     clauses |-> parse_filters(filters),
     params |-> BoundParams(parse_filters(filters)),
     interpolated |-> ImageInterpolated(image, k),
     raised |-> raised]

\* A search reads the tables and writes nothing, so one call per behaviour
\* shows every result a call can have.
QuerySearchTextCall(q_text, k, filters, w) ==
    /\ searchCall = NoCall
    /\ result' \in QuerySearchText(q_text, k, filters, w[1], w[2])
    /\ searchCall' = TextCall("Query.search_text", q_text, k, filters, w)
    /\ UNCHANGED <<catalogVars, envVars, features, pending, runVars, upsertArg>>

EngineSearchTextCall(q_text, k, filters, w) ==
    /\ searchCall = NoCall
    /\ result' \in EngineSearchText(q_text, k, filters, w[1], w[2])
    /\ searchCall' = TextCall("Engine.search_text", q_text, k, filters, w)
    /\ UNCHANGED <<catalogVars, envVars, features, pending, runVars, upsertArg>>

QuerySearchImageCall(image, k, filters) ==
    /\ searchCall = NoCall
    /\ \E outcome \in SearchImage(image, k, filters) :
          /\ result' = outcome.items
          /\ searchCall' = ImageCall("Query.search_image", image, k, filters,
                                     outcome.raised)
    /\ UNCHANGED <<catalogVars, envVars, features, pending, runVars, upsertArg>>

EngineSearchImageCall(image, k, filters) ==
    /\ searchCall = NoCall
    /\ \E outcome \in SearchImage(image, k, filters) :
          /\ result' = outcome.items
          /\ searchCall' = ImageCall("Engine.search_image", image, k, filters,
                                     outcome.raised)
    /\ UNCHANGED <<catalogVars, envVars, features, pending, runVars, upsertArg>>

NextSearch ==
    \/ \E q_text \in QueryTexts, k \in 1..MaxK, filters \in FilterValues,
          w \in WeightPairs : QuerySearchTextCall(q_text, k, filters, w)
    \/ \E q_text \in QueryTexts, k \in 1..MaxK, filters \in FilterValues,
          w \in WeightPairs : EngineSearchTextCall(q_text, k, filters, w)
    \/ \E image \in QueryImages, k \in 1..MaxK, filters \in FilterValues :
          QuerySearchImageCall(image, k, filters)
    \/ \E image \in QueryImages, k \in 1..MaxK, filters \in FilterValues :
          EngineSearchImageCall(image, k, filters)

SpecSearch == InitSearch /\ [][NextSearch]_vars

TextSearched == searchCall.kind \in {"Query.search_text", "Engine.search_text"}

\* C9: every item a text search returns has
\* score = clip_weight * clip_score + st_weight * st_score, for the weights of
\* the call and the two similarities returned with the item.
C9_TextFusion ==
    TextSearched =>
        \A i \in 1..Len(result) :
            /\ result[i].clip_score # None
            /\ result[i].st_score # None
            /\ result[i].score = searchCall.clip_weight * result[i].clip_score[1]
                                 + searchCall.st_weight * result[i].st_score[1]

\* a text search with uneven weights returned two items whose two similarities
\* differ
C9_Witness ==
    /\ TextSearched
    /\ searchCall.clip_weight # searchCall.st_weight
    /\ Len(result) = 2
    /\ \A i \in 1..2 : result[i].clip_score # result[i].st_score
    /\ result[1].score # result[2].score

\* C10: an item whose clip_text slot is null is in no result of
\* Query.search_text.
C10_NullClipTextExcluded ==
    searchCall.kind = "Query.search_text" =>
        \A i \in 1..Len(result) : features[result[i].sku]["clip_text"] # NULL

ImageSearched == searchCall.kind \in {"Query.search_image", "Engine.search_image"}

\* the larger of two similarities
Max2(a, b) == IF a >= b THEN a ELSE b

\* C11: every item an image search returns has score = max(clip_score1,
\* clip_score2), and when exactly one of its two image slots is null the score
\* is the similarity of the other slot.
C11_ImageMaxFusion ==
    ImageSearched =>
        \A i \in 1..Len(result) :
            LET r == result[i]
                row == features[r.sku]
                q == ClipImageQueryVector(searchCall.image)
            IN  /\ (row["clip_image1"] # NULL /\ row["clip_image2"] # NULL) =>
                      r.score = Max2(r.clip_score1[1], r.clip_score2[1])
                /\ (row["clip_image1"] # NULL /\ row["clip_image2"] = NULL) =>
                      /\ r.clip_score2 = None
                      /\ r.score = Dot(row["clip_image1"], q)
                /\ (row["clip_image1"] = NULL /\ row["clip_image2"] # NULL) =>
                      /\ r.clip_score1 = None
                      /\ r.score = Dot(row["clip_image2"], q)

\* an image search returned one item with a single image slot, and one whose
\* second image matches better than its first
C11_Witness ==
    /\ ImageSearched
    /\ Len(result) = 2
    /\ \E i \in 1..2 : result[i].clip_score2 = None /\ result[i].clip_score1 # None
    /\ \E i \in 1..2 :
          /\ result[i].clip_score1 # None
          /\ result[i].clip_score2 # None
          /\ result[i].clip_score2[1] > result[i].clip_score1[1]

\* C12: an image search raises no error, returns no item whose two image slots
\* are both null, and returns the empty list when every feature row has both
\* image slots null.
C12_NullImageRowsExcluded ==
    ImageSearched =>
        /\ ~searchCall.raised
        /\ \A i \in 1..Len(result) :
              \/ features[result[i].sku]["clip_image1"] # NULL
              \/ features[result[i].sku]["clip_image2"] # NULL
        /\ (\A sku \in DOMAIN features :
               features[sku]["clip_image1"] = NULL /\ features[sku]["clip_image2"] = NULL)
           => result = <<>>

Searched == TextSearched \/ ImageSearched

\* the vector slot a text search scores the CLIP query vector against
ScoredClipSlot ==
    IF searchCall.kind = "Query.search_text" THEN "clip_image1" ELSE "clip_text"

\* the fused score of the finished call for the item sku, None when the mode
\* of the call has no score for it
FusedScore(sku) ==
    LET row == features[sku]
    IN  IF TextSearched
        THEN IF row[ScoredClipSlot] # NULL /\ row["st_text"] # NULL
             THEN Some(searchCall.clip_weight
                          * Dot(row[ScoredClipSlot], ClipQueryVector(searchCall.q_text))
                       + searchCall.st_weight
                          * Dot(row["st_text"], STQueryVector(searchCall.q_text)))
             ELSE None
        ELSE LET q == ClipImageQueryVector(searchCall.image)
             IN  CASE row["clip_image1"] = NULL /\ row["clip_image2"] = NULL -> None
                   [] row["clip_image1"] = NULL -> Some(Dot(row["clip_image2"], q))
                   [] row["clip_image2"] = NULL -> Some(Dot(row["clip_image1"], q))
                   [] OTHER -> Some(Max2(Dot(row["clip_image1"], q),
                                         Dot(row["clip_image2"], q)))

ReturnedSkus == {result[i].sku : i \in 1..Len(result)}

\* the items the finished call left out although they satisfy its predicate
\* and have a score
LeftOut ==
    {sku \in (DOMAIN features \cap DOMAIN attributes) \ ReturnedSkus :
        WhereHolds(searchCall.clauses, sku) /\ FusedScore(sku) # None}

\* C13: the list a search (text or image) returns has at most k items, each
\* with its fused score, is in descending order of that score, and no item
\* that satisfies the predicate and was left out has a score above that of a
\* returned item.
C13_TopKByScore ==
    (Searched /\ ~searchCall.raised) =>
        /\ Len(result) <= searchCall.k
        /\ \A i \in 1..Len(result) :
              /\ FusedScore(result[i].sku) # None
              /\ result[i].score = FusedScore(result[i].sku)[1]
        /\ \A i, j \in 1..Len(result) : i < j => result[i].score >= result[j].score
        /\ \A sku \in LeftOut : \A i \in 1..Len(result) :
              FusedScore(sku)[1] <= result[i].score

\* a search with k = 1 returned the better of two items that satisfy its
\* predicate
C13_Witness ==
    /\ Searched
    /\ ~searchCall.raised
    /\ searchCall.k = 1
    /\ Len(result) = 1
    /\ \E sku \in LeftOut : FusedScore(sku)[1] < result[1].score

\* sku ascending
SkuRank(sku) == IF sku = "A" THEN 1 ELSE 2

\* C14: a search returns items of equal fused score in ascending order of
\* sku, so that two identical calls on an unchanged store return the same list.
C14_TiesBySkuAscending ==
    (Searched /\ ~searchCall.raised) =>
        /\ \A i, j \in 1..Len(result) :
              (i < j /\ result[i].score = result[j].score) =>
                  SkuRank(result[i].sku) < SkuRank(result[j].sku)
        /\ \A sku \in LeftOut : \A i \in 1..Len(result) :
              FusedScore(sku)[1] = result[i].score =>
                  SkuRank(result[i].sku) < SkuRank(sku)

\* C17: no value the caller supplies (query vector, fusion weight, k, filter
\* value) is formatted into the text of the statement; all are bound
\* parameters.
C17_AllValuesBound ==
    Searched => DOMAIN searchCall.interpolated = {}

----------------------------------------------------------------------------
(* Filters: the searches of Query under every combination of filter fields *)

\* the Filters values of the filter model: each field absent or one of a few
\* values (brand in two spellings, a color that is a target, one that is a
\* raw color, one that is neither; prices at and off the catalog's prices)
FilterSet ==
    {NoFilters} \cup
    [brand : {None, Some("nike"), Some("Nike")},
     category : {None, Some("Shoes")},
     color : {None, Some("red"), Some("crimson"), Some("green")},
     min_price : {None, Some(40), Some(50)},
     max_price : {None, Some(100), Some(120)}]

\* item.colors as colors.embed leaves it, and with the row of navy missing
ColorTables == {ColorTable, [c \in {"crimson"} |-> ColorTable[c]]}

\* a feature row with the same vector in every slot, and one without images
FullRow(v) == [slot \in Slots |-> v]

TextOnlyRow(v) == [slot \in Slots |-> IF slot \in {"clip_text", "st_text"} THEN v ELSE NULL]

FilterStores ==
    [Skus -> {FullRow(<<1, 0>>), FullRow(<<0, 1>>), TextOnlyRow(<<1, 0>>)}]

InitFilter ==
    /\ attributes = Catalog
    /\ files = {}
    /\ colors \in ColorTables
    /\ features \in FilterStores
    /\ RunIdle
    /\ NoApiCall

NextFilter ==
    \/ \E q_text \in QueryTexts, k \in 1..MaxK, filters \in FilterSet,
          w \in WeightPairs : QuerySearchTextCall(q_text, k, filters, w)
    \/ \E image \in QueryImages, k \in 1..MaxK, filters \in FilterSet :
          QuerySearchImageCall(image, k, filters)

SpecFilter == InitFilter /\ [][NextFilter]_vars

\* the call returned a list and passed a Filters value
Filtered == Searched /\ ~searchCall.raised /\ searchCall.filters # NoFilters

\* the items with a score that pass every clause of the finished call whose
\* column is not in columns
PassOtherClauses(columns) ==
    {sku \in DOMAIN features \cap DOMAIN attributes :
        /\ FusedScore(sku) # None
        /\ \A i \in 1..Len(searchCall.clauses) :
              searchCall.clauses[i].column \notin columns =>
                  ClauseHolds(searchCall.clauses[i], sku)}

\* LIMIT k cut nothing off
NotCut == Len(result) < searchCall.k

\* C15: with min_price = lo and/or max_price = hi every returned item has
\* lo <= price <= hi, and an item priced exactly lo or hi (or anywhere in the
\* range) is not kept out by the price clause.
C15_PriceRangeInclusive ==
    Filtered =>
        LET lo == searchCall.filters.min_price
            hi == searchCall.filters.max_price
            InRange(price) == /\ lo # None => lo[1] <= price
                              /\ hi # None => price <= hi[1]
        IN  /\ \A i \in 1..Len(result) : InRange(result[i].price)
            /\ NotCut =>
                  \A sku \in PassOtherClauses({"A.price"}) :
                      InRange(attributes[sku].price) => sku \in ReturnedSkus

\* with the range 40..100 the item priced exactly 40 was returned and the item
\* priced 120 was not, although its score is higher
C15_Witness ==
    /\ Filtered
    /\ searchCall.filters.min_price = Some(40)
    /\ searchCall.filters.max_price = Some(100)
    /\ searchCall.k = 2
    /\ Len(result) = 1
    /\ result[1].sku = "A"
    /\ FusedScore("B") # None
    /\ FusedScore("B")[1] > result[1].score

\* the fields of a Filters value that are set
SetFields(filters) ==
    {f \in {"brand", "category", "color", "min_price", "max_price"} : filters[f] # None}

\* C16: parse_filters gives an empty predicate and an empty parameter list for
\* filters = None and for a Filters value with every field None, a text search
\* then returns every item with both scored slots, and in general there is one
\* clause and one parameter for each field that is set.
C16_EmptyPredicate ==
    Searched =>
        /\ searchCall.filters \in {NoFilters, EmptyFilters} =>
              /\ searchCall.clauses = <<>>
              /\ searchCall.params = <<>>
              /\ (TextSearched /\ NotCut) =>
                    \A sku \in DOMAIN features \cap DOMAIN attributes :
                        FusedScore(sku) # None => sku \in ReturnedSkus
        /\ searchCall.filters # NoFilters =>
              /\ Len(searchCall.clauses) = Cardinality(SetFields(searchCall.filters))
              /\ Len(searchCall.params) = Len(searchCall.clauses)

\* a text search with a Filters value whose fields are all None returned both
\* items
C16_Witness ==
    /\ TextSearched
    /\ searchCall.filters = EmptyFilters
    /\ ReturnedSkus = Skus

\* C18: under a color filter an item is returned only if ColorMapping has a
\* row for its raw color whose target_color is the filter value, whatever the
\* raw color itself is; an item whose target_color is the filter value is not
\* kept out by the color clause.
C18_MatchOnTargetColor ==
    (Filtered /\ searchCall.filters.color # None) =>
        LET c == searchCall.filters.color[1]
            Target(sku) == IF attributes[sku].color \in DOMAIN colors
                           THEN Some(colors[attributes[sku].color]) ELSE None
        IN  /\ \A i \in 1..Len(result) : Target(result[i].sku) = Some(c)
            /\ \A sku \in DOMAIN attributes :
                  (attributes[sku].color = c /\ Target(sku) # Some(c)) =>
                      sku \notin ReturnedSkus
            /\ NotCut =>
                  \A sku \in PassOtherClauses({"C.target_color"}) :
                      Target(sku) = Some(c) => sku \in ReturnedSkus

\* the color filter red returned the item whose raw color is crimson
C18_Witness ==
    /\ Filtered
    /\ searchCall.filters.color = Some("red")
    /\ \E i \in 1..Len(result) : result[i].color = "crimson"

\* the target colors of item.colors
TargetColors == {colors[c] : c \in DOMAIN colors}

\* C19: under a color filter that no ColorMapping row yields, the search
\* returns the empty list and raises no error; an item whose raw color has no
\* ColorMapping row is never returned under a color filter, and a text search
\* raises no error.
C19_UnmappedColorMatchesNothing ==
    (Searched /\ searchCall.filters # NoFilters /\ searchCall.filters.color # None) =>
        /\ searchCall.filters.color[1] \notin TargetColors =>
              result = <<>> /\ ~searchCall.raised
        /\ \A i \in 1..Len(result) : result[i].color \in DOMAIN colors
        /\ TextSearched => ~searchCall.raised

\* a search filtered on a color no row yields came back empty, although both
\* items have a score and there is no other filter; the raw color of one item
\* has no row
C19_Witness ==
    /\ Filtered
    /\ searchCall.filters = [EmptyFilters EXCEPT !.color = Some("green")]
    /\ \A sku \in Skus : FusedScore(sku) # None
    /\ \E sku \in Skus : attributes[sku].color \notin DOMAIN colors
    /\ result = <<>>

\* str.lower() on the brands and categories of the model
Lower(s) ==
    CASE s = "Nike" -> "nike"
      [] s = "Shoes" -> "shoes"
      [] OTHER -> s

\* C20: brand and category filters match after case normalization: every
\* returned item has the filter's brand and category up to letter case, and an
\* item whose brand and category differ from the filter's only in letter case
\* is not kept out by those clauses.
C20_CaseNormalizedMatch ==
    Filtered =>
        LET brand == searchCall.filters.brand
            category == searchCall.filters.category
            Matches(sku) ==
                /\ brand # None => Lower(attributes[sku].brand) = Lower(brand[1])
                /\ category # None => Lower(attributes[sku].category) = Lower(category[1])
        IN  /\ \A i \in 1..Len(result) : Matches(result[i].sku)
            /\ NotCut =>
                  \A sku \in PassOtherClauses({"A.brand", "A.category"}) :
                      Matches(sku) => sku \in ReturnedSkus

----------------------------------------------------------------------------
(* upsert_to_features over more database batches than commit_every *)

\* a catalog large enough for one payload to span commit_every + 1 batches
CommitSkus == {"A", "B", "C", "D", "E", "F"}

InitCommit ==
    /\ attributes = [s \in CommitSkus |-> [texts |-> TextOf(s)]]
    /\ files \in {{}, {PathOf("A", "image1")}}
    /\ colors = <<>>
    /\ features \in {EmptyTable, [s \in {"F"} |-> [slot \in Slots |-> OwnVector(s, slot)]]}
    /\ RunIdle
    /\ NoApiCall

\* one run of embed with a batch_size that puts every selected item into one
\* payload, so one call of upsert_to_features
NextCommit ==
    \/ pc = "idle" /\ Select(Cardinality(CommitSkus))
    \/ EmbedTexts
    \/ EmbedImages
    \/ ExecuteBatch
    \/ CommitStep
    \/ Crash

SpecCommit == InitCommit /\ [][NextCommit]_vars

\* C24: inside upsert_to_features at most commit_every database batches are
\* executed and not yet committed (so a crash loses no more), the transaction
\* is committed after every commit_every-th batch, and when the function has
\* returned every record of the call is in the committed table.
C24_CommitInterval ==
    /\ uncommitted <= commit_every
    /\ (pc = "execute" /\ batch_idx > 0 /\ batch_idx % commit_every = 0) =>
          pending = EmptyTable /\ uncommitted = 0
    /\ (pc \in {"text", "done"} /\ executed > 0) =>
          /\ pending = EmptyTable
          /\ uncommitted = 0
          /\ \A sku \in DOMAIN sku_payload :
                /\ sku \in DOMAIN features
                /\ features[sku] = [slot \in Slots |-> DictGet(sku_payload[sku], slot)]

\* the commit_every-th batch of a payload of commit_every + 1 batches has been
\* committed and the last batch is still to be executed
C24_Witness ==
    /\ pc = "execute"
    /\ batch_idx = commit_every
    /\ DbTotalBatches = commit_every + 1
    /\ Cardinality(DOMAIN features) >= commit_every
    /\ pending = EmptyTable

----------------------------------------------------------------------------
(* Further properties of the backfill run, checked under Spec *)

\* the text part / the whole of the current batch's payload has been built
TextsAssigned == pc \in {"image", "execute", "commit"}

PayloadBuilt == pc \in {"execute", "commit"}

\* C29: in a batch's payload the st_text and clip_text vectors of an item are
\* the ones made from its own texts and the clip_image1 / clip_image2 vectors
\* the ones made from its own image1 / image2 file; an item with empty texts or
\* without the file has no entry for the slot.
C29_VectorsAligned ==
    /\ TextsAssigned =>
          \A sku \in DOMAIN sku_payload : \A slot \in {"st_text", "clip_text"} :
              IF SourceAvailable(sku, slot)
              THEN /\ slot \in DOMAIN sku_payload[sku]
                   /\ sku_payload[sku][slot] = OwnVector(sku, slot)
              ELSE slot \notin DOMAIN sku_payload[sku]
    /\ PayloadBuilt =>
          \A sku \in DOMAIN sku_payload : \A slot \in {"clip_image1", "clip_image2"} :
              IF SourceAvailable(sku, slot)
              THEN /\ slot \in DOMAIN sku_payload[sku]
                   /\ sku_payload[sku][slot] = OwnVector(sku, slot)
              ELSE slot \notin DOMAIN sku_payload[sku]

\* the payload of a batch of two is built: the first item has no texts and only
\* image2, the second has texts and both images
C29_Witness ==
    /\ PayloadBuilt
    /\ Len(RecordBatch) = 2
    /\ LET first == RecordBatch[1].sku
           second == RecordBatch[2].sku
       IN  /\ DOMAIN sku_payload[first] = {"clip_image2"}
           /\ DOMAIN sku_payload[second] = Slots

\* the run keeps executing: every step of embed that can be taken is taken
\* (an encoder call may still raise and the process may still be killed)
InitFair ==
    /\ \E withTexts \in SUBSET Skus :
          attributes = [s \in Skus |->
                           [texts |-> IF s \in withTexts THEN TextOf(s) ELSE EmptyText]]
    /\ files \in SUBSET (Skus \X ImageKeys)
    /\ colors = <<>>
    /\ features \in {EmptyTable, [s \in {"A"} |-> [slot \in Slots |-> OwnVector(s, slot)]]}
    /\ RunIdle
    /\ NoApiCall

SpecFair ==
    /\ InitFair
    /\ [][Next]_vars
    /\ WF_vars(EmbedTexts)
    /\ WF_vars(EmbedImages)
    /\ WF_vars(ExecuteBatch)
    /\ WF_vars(CommitStep)

Running == pc \in {"text", "image", "execute", "commit"}

\* every selected item was in exactly one record_batch, and the batches were
\* ceil(selected / batch_size) many
EachItemOnce ==
    /\ DOMAIN processed = Selected
    /\ \A sku \in Selected : processed[sku] = 1
    /\ batchNo * batch_size >= Len(records)
    /\ batchNo > 0 => (batchNo - 1) * batch_size < Len(records)

\* C28: a backfill run terminates, also when selected items have empty texts
\* or no image files and so keep null slots; when it has finished, every
\* selected item was processed in exactly one batch and the number of batches
\* was ceil(selected / batch_size).
C28_RunTerminates ==
    /\ [](pc = "done" => EachItemOnce)
    /\ Running ~> RunOver

\* a run of two batches has finished and a selected item has neither texts nor
\* image files
C28_Witness ==
    /\ pc = "done"
    /\ batchNo = 2
    /\ \E sku \in Selected : \A slot \in Slots : ~SourceAvailable(sku, slot)

----------------------------------------------------------------------------
(* The backfill run next to another writer of item.features *)

InitConcurrent ==
    /\ attributes = [s \in Skus |-> [texts |-> TextOf(s)]]
    /\ files \in {{}, Skus \X ImageKeys}
    /\ colors = <<>>
    /\ \E F \in Stores : features = Own(F)
    /\ RunIdle
    /\ NoApiCall

\* another process (a second embed, or a caller of upsert_to_features) fills
\* all four slots of sku and commits; it waits while the run's open
\* transaction holds the row
OtherWriterFills(sku) ==
    /\ ~Complete(features, sku)
    /\ sku \notin DOMAIN pending
    /\ features' = [s \in DOMAIN features \cup {sku} |->
                       IF s = sku THEN [slot \in Slots |-> OwnVector(sku, slot)]
                       ELSE features[s]]
    /\ otherWrites' = otherWrites \cup {sku}
    /\ UNCHANGED <<catalogVars, embedder, colorJob, pending, runVars, callVars>>

NextConcurrent ==
    \/ \E bs \in 1..MaxBatchSize : Select(bs)
    \/ EmbedTexts
    \/ EmbedImages
    \/ ExecuteBatch
    \/ CommitStep
    \/ \E sku \in Skus : OtherWriterFills(sku)

SpecConcurrent == InitConcurrent /\ [][NextConcurrent]_vars

\* the skus of the database batch the next execute_values statement holds
NextBatchSkus ==
    LET batch == Batched(UpsertRecords, DbBatchSize, batch_idx + 1)
    IN  {batch[i].sku : i \in 1..Len(batch)}

----------------------------------------------------------------------------
(* Further properties of the searches, checked under SpecSearch *)

\* C25: a text search scores the CLIP text vector of the query against the
\* item's clip_text slot and the sentence-encoder vector against its st_text
\* slot: the clip_score returned with an item is its similarity in the
\* clip_text space, whatever its image slots hold.
C25_TextScoredInTextSpaces ==
    TextSearched =>
        \A i \in 1..Len(result) :
            LET row == features[result[i].sku]
            IN  /\ row["clip_text"] # NULL
                /\ row["st_text"] # NULL
                /\ result[i].clip_score =
                      Some(Dot(row["clip_text"], ClipQueryVector(searchCall.q_text)))
                /\ result[i].st_score =
                      Some(Dot(row["st_text"], STQueryVector(searchCall.q_text)))

----------------------------------------------------------------------------
(* parse_filters on its own *)

\* the text of a clause as parse_filters appends it
ClauseText(clause) ==
    CASE clause.column = "A.brand" -> "A.brand = %s"
      [] clause.column = "A.category" -> "A.category = %s"
      [] clause.column = "C.target_color" -> "C.target_color = %s"
      [] clause.column = "A.price" /\ clause.op = ">=" -> "A.price >= %s"
      [] clause.column = "A.price" /\ clause.op = "<=" -> "A.price <= %s"

\* f" AND {' AND '.join(clauses)}" if clauses else "": the pieces of the text
FiltersSql(clauses) ==
    LET RECURSIVE go(_)
        go(i) == IF i > Len(clauses) THEN <<>>
                 ELSE <<"AND", ClauseText(clauses[i])>> \o go(i + 1)
    IN  go(1)

\* the Filters values parse_filters is given: each field absent, a usual value,
\* or the falsy value of its type
ParseInputs ==
    {NoFilters} \cup
    [brand : {None, Some("nike"), Some("")},
     category : {None, Some("shoes")},
     color : {None, Some("red")},
     min_price : {None, Some(0), Some(40)},
     max_price : {None, Some(0), Some(100)}]

\* Query.parse_filters(filters) / Engine.parse_filters(filters): the pair
\* (filters_sql, params) returned
ParseFiltersCall(kind, filters) ==
    /\ searchCall = NoCall
    /\ searchCall' = [kind |-> kind, filters |-> filters]
    /\ result' = <<FiltersSql(parse_filters(filters)), BoundParams(parse_filters(filters))>>
    /\ UNCHANGED <<catalogVars, envVars, features, pending, runVars, upsertArg>>

NextParse ==
    \/ \E filters \in ParseInputs : ParseFiltersCall("Query.parse_filters", filters)
    \/ \E filters \in ParseInputs : ParseFiltersCall("Engine.parse_filters", filters)

\* parse_filters reads no table: the database is the one of the filtered searches
SpecParse == InitFilter /\ [][NextParse]_vars

Parsed == searchCall.kind \in {"Query.parse_filters", "Engine.parse_filters"}

\* the fields in the order parse_filters tests them, and the clause of each
FieldOrder == <<"brand", "category", "color", "min_price", "max_price">>

FieldClause(field) ==
    CASE field = "brand" -> "A.brand = %s"
      [] field = "category" -> "A.category = %s"
      [] field = "color" -> "C.target_color = %s"
      [] field = "min_price" -> "A.price >= %s"
      [] field = "max_price" -> "A.price <= %s"

\* the fields of filters that are not None, in that order
FieldsSet(filters) ==
    LET RECURSIVE go(_)
        go(i) == IF i > Len(FieldOrder) THEN <<>>
                 ELSE (IF filters[FieldOrder[i]] # None THEN <<FieldOrder[i]>> ELSE <<>>)
                      \o go(i + 1)
    IN  go(1)

\* C30: parse_filters returns one parameter for each %s of the predicate, the
\* i-th being the value of the field that produced the i-th clause, with the
\* clauses in the order brand, category, color, min_price, max_price and each
\* preceded by AND; a field whose value is 0 or "" has its clause.
C30_ParamsMatchPlaceholders ==
    Parsed =>
        LET filters_sql == result[1]
            params == result[2]
            fields == IF searchCall.filters = NoFilters THEN <<>>
                      ELSE FieldsSet(searchCall.filters)
        IN  /\ Len(params) = Len(fields)
            /\ Len(filters_sql) = 2 * Len(fields)
            /\ \A i \in 1..Len(fields) :
                  /\ filters_sql[2 * i - 1] = "AND"
                  /\ filters_sql[2 * i] = FieldClause(fields[i])
                  /\ params[i] = searchCall.filters[fields[i]][1]

\* parse_filters was given a value with every field set, the brand "" and the
\* minimum price 0
C30_Witness ==
    /\ Parsed
    /\ searchCall.filters # NoFilters
    /\ searchCall.filters.brand = Some("")
    /\ searchCall.filters.min_price = Some(0)
    /\ Len(result[2]) = Len(FieldOrder)

----------------------------------------------------------------------------
(* Engine.run: filter extraction, then the search *)

\* what the extractor call can do: raise (the API call fails), return no parsed
\* value (output_parsed is None), or return a Filters value whose clean_query
\* is left at None or set
ExtractorOutcomes ==
    {[raises |-> TRUE, parsed |-> NoFilters, clean_query |-> None],
     [raises |-> FALSE, parsed |-> NoFilters, clean_query |-> None]}
    \cup [raises : {FALSE}, parsed : FilterValues \ {NoFilters},
          clean_query : {None} \cup {Some(t) : t \in QueryTexts}]

\* clip_weight and st_weight of Query.search_text when not given, in tenths
DefaultWeights == <<5, 5>>

\* Engine.run(q_text, q_image, k): the items returned, or the exception raised.
\* The extractor is called when q_text is given and nothing catches what it
\* raises; the text searched is filters.clean_query when there are filters.
EngineRun(q_text, q_image, k, extraction) ==
    LET called == q_text # None
        filters == IF called THEN extraction.parsed ELSE NoFilters
        text == IF filters # NoFilters THEN extraction.clean_query ELSE q_text
    IN  IF called /\ extraction.raises
        THEN {[items |-> <<>>, raised |-> TRUE]}
        ELSE IF q_image # None
        THEN {[items |-> outcome.items, raised |-> outcome.raised] :
                 outcome \in SearchImage(q_image[1], k, filters)}
        ELSE IF text = None
        THEN {[items |-> <<>>, raised |-> TRUE]}
        ELSE {[items |-> items, raised |-> FALSE] :
                 items \in QuerySearchText(text[1], k, filters,
                                           DefaultWeights[1], DefaultWeights[2])}

EngineRunCall(q_text, q_image, k, extraction) ==
    /\ searchCall = NoCall
    /\ \E outcome \in EngineRun(q_text, q_image, k, extraction) :
          /\ result' = outcome.items
          /\ searchCall' = [kind |-> "Engine.run", q_text |-> q_text,
                            q_image |-> q_image, k |-> k,
                            called |-> q_text # None,
                            extraction |-> extraction,
                            raised |-> outcome.raised]
    /\ UNCHANGED <<catalogVars, envVars, features, pending, runVars, upsertArg>>

NextEngine ==
    \E q_text \in {None} \cup {Some(t) : t \in QueryTexts},
       q_image \in {None} \cup {Some(i) : i \in QueryImages},
       k \in 1..MaxK, extraction \in ExtractorOutcomes :
        EngineRunCall(q_text, q_image, k, extraction)

SpecEngine == InitFilter /\ [][NextEngine]_vars

\* the extractor was called and failed: it raised, returned nothing parsed, or
\* returned a Filters value without clean_query
ExtractorFailed ==
    /\ searchCall.kind = "Engine.run"
    /\ searchCall.called
    /\ \/ searchCall.extraction.raises
       \/ searchCall.extraction.parsed = NoFilters
       \/ searchCall.extraction.clean_query = None

\* C23: when the extractor fails during Engine.run, the run ends as the search
\* without filters on the original image, or else the original text, ends: it
\* returns that search's items and the failure is not raised to the caller.
C23_ExtractorFailureIsNoFilters ==
    ExtractorFailed =>
        IF searchCall.q_image # None
        THEN \E outcome \in SearchImage(searchCall.q_image[1], searchCall.k, NoFilters) :
                /\ result = outcome.items
                /\ searchCall.raised = outcome.raised
        ELSE /\ ~searchCall.raised
             /\ result \in QuerySearchText(searchCall.q_text[1], searchCall.k, NoFilters,
                                           DefaultWeights[1], DefaultWeights[2])

----------------------------------------------------------------------------
(* colors.py: the color vocabulary, zero_shot_color and the mapping job *)

\* three of the 38 entries of CORPUS_COLORS, in the order of the list
CORPUS_COLORS == <<"red", "dark red", "navy">>

CorpusSet == {CORPUS_COLORS[i] : i \in 1..Len(CORPUS_COLORS)}

\* the raw colors of the catalog: one outside the vocabulary, two inside
RawColors == {"crimson", "red", "navy"}

\* f"A piece of clothing in {color} color."
ColorQuery(color) == <<"A piece of clothing in ", color, " color.">>

\* what the f-string makes of a color read from the table: None prints as "None"
ColorText(color) == IF color = NULL THEN "None" ELSE color[1]

\* the texts the color module has encoded
ColorQueries == {ColorQuery(c) : c \in CorpusSet \cup RawColors \cup {"None"}}

\* F.normalize(emb, dim=-1): every text vector has length 1
UnitVectors == {<<1, 0>>, <<0, 1>>, <<-1, 0>>}

\* a deterministic encoder: one unit vector for each text
Embedders == [ColorQueries -> UnitVectors]

\* clip_embedder.encode_texts of one text
encode_text(query) == embedder[query]

\* corpus_features, computed once when the module is loaded
corpus_features ==
    [i \in 1..Len(CORPUS_COLORS) |-> encode_text(ColorQuery(CORPUS_COLORS[i]))]

\* mutant: np.argmin for np.argmax
ArgMin(sims) ==
    CHOOSE i \in 1..Len(sims) :
        /\ \A j \in 1..Len(sims) : sims[j] >= sims[i]
        /\ \A j \in 1..(i - 1) : sims[j] > sims[i]

\* np.argmax: the first index of the greatest value
ArgMax(sims) ==
    CHOOSE i \in 1..Len(sims) :
        /\ \A j \in 1..Len(sims) : sims[j] <= sims[i]
        /\ \A j \in 1..(i - 1) : sims[j] < sims[i]

\* np.dot(corpus_features, query_features.T) and the vocabulary color at its argmax
BestMatch(query) ==
    CORPUS_COLORS[ArgMax([i \in 1..Len(CORPUS_COLORS) |->
                             Dot(corpus_features[i], encode_text(query))])]

zero_shot_color(color) == <<color, BestMatch(ColorQuery(color))>>

\* mutant: ON CONFLICT (source_color) DO NOTHING
upsert_to_colors_DoNothing(table, payload) ==
    [c \in DOMAIN table \cup {r.source_color[1] : r \in payload} |->
        IF c \in DOMAIN table THEN table[c]
        ELSE (CHOOSE r \in payload : r.source_color[1] = c).target_color]

\* INSERT INTO item.colors ... ON CONFLICT (source_color) DO UPDATE SET
\* target_color = EXCLUDED.target_color, for a payload without a null source
upsert_to_colors(table, payload) ==
    [c \in DOMAIN table \cup {r.source_color[1] : r \in payload} |->
        IF \E r \in payload : r.source_color[1] = c
        THEN (CHOOSE r \in payload : r.source_color[1] = c).target_color
        ELSE table[c]]

\* SELECT DISTINCT color FROM item.attributes: a color, or NULL
query_colors == {attributes[sku].color : sku \in DOMAIN attributes}

\* matches, as the payload: one record for each distinct color read
ColorPayload ==
    {[source_color |-> color, target_color |-> BestMatch(ColorQuery(ColorText(color)))] :
        color \in query_colors}

\* the catalogs of the color job: no item, or two items; the color column is
\* nullable, so here it holds Some(color) or NULL
ColorCatalogs ==
    {<<>>} \cup
    {[sku \in Skus |-> [color |-> IF sku = "A" THEN a ELSE b]] :
        a \in {Some("crimson"), Some("red"), NULL}, b \in {Some("crimson"), Some("navy")}}

\* item.colors before the job runs: empty, or left by an earlier encoder, with
\* a row for a color the catalog has no more
StaleColors == [c \in {"crimson", "teal"} |-> "navy"]

MaxRuns == 2

\* colors.embed: read the distinct colors, match each, upsert the payload.
\* encode_texts of an empty list raises (torch.cat of no tensors); a NULL
\* source_color violates the primary key, and then nothing is committed.
ColorsEmbed ==
    /\ colorJob.runs < MaxRuns
    /\ IF query_colors = {} \/ NULL \in query_colors
       THEN /\ colorJob' = [runs |-> colorJob.runs + 1, raised |-> TRUE,
                            catalog |-> attributes]
            /\ colors' = colors
       ELSE /\ colorJob' = [runs |-> colorJob.runs + 1, raised |-> FALSE,
                            catalog |-> attributes]
            /\ colors' = upsert_to_colors(colors, ColorPayload)
    /\ UNCHANGED <<attributes, files, otherWrites, embedder, features, pending,
                   runVars, callVars>>

\* ingestion (external) sets the color of an item
IngestColor(sku, color) ==
    /\ sku \in DOMAIN attributes
    /\ attributes[sku].color # color
    /\ attributes' = [attributes EXCEPT ![sku].color = color]
    /\ UNCHANGED <<files, colors, envVars, features, pending, runVars, callVars>>

\* zero_shot_color(color), called once
ZeroShotColorCall(color) ==
    /\ searchCall = NoCall
    /\ searchCall' = [kind |-> "zero_shot_color", color |-> color]
    /\ result' = zero_shot_color(color)
    /\ UNCHANGED <<catalogVars, envVars, features, pending, runVars, upsertArg>>

InitColors ==
    /\ attributes \in ColorCatalogs
    /\ files = {}
    /\ colors \in {<<>>, StaleColors}
    /\ features = EmptyTable
    /\ PipelineIdle
    /\ NoApiCall
    /\ embedder \in Embedders
    /\ colorJob = NoJob

NextColors ==
    \/ ColorsEmbed
    \/ \E sku \in Skus, color \in {Some("crimson"), NULL} : IngestColor(sku, color)
    \/ \E color \in CorpusSet \cup RawColors : ZeroShotColorCall(color)

SpecColors == InitColors /\ [][NextColors]_vars

\* zero_shot_color has been called
ZeroShotCalled == searchCall.kind = "zero_shot_color"

\* the encoder gives the vocabulary colors pairwise different vectors
VocabularyDistinct ==
    \A i, j \in 1..Len(CORPUS_COLORS) :
        i # j => corpus_features[i] # corpus_features[j]

\* C22, as stated: for every color c of CORPUS_COLORS, zero_shot_color(c)
\* returns c as the matched vocabulary color, whatever deterministic encoder
\* with unit-length outputs is loaded.
C22_RoundTrip ==
    (ZeroShotCalled /\ searchCall.color \in CorpusSet) =>
        result = <<searchCall.color, searchCall.color>>

\* C22, amended: for every color c of CORPUS_COLORS, zero_shot_color(c) returns
\* c as the matched vocabulary color when the deterministic, unit-length
\* encoder gives distinct vocabulary colors distinct vectors.
C22_RoundTripDistinctVectors ==
    (ZeroShotCalled /\ searchCall.color \in CorpusSet /\ VocabularyDistinct) =>
        result = <<searchCall.color, searchCall.color>>

\* zero_shot_color of the last vocabulary color returned it, under an encoder
\* that tells the vocabulary colors apart
C22_Witness ==
    /\ ZeroShotCalled
    /\ searchCall.color = CORPUS_COLORS[Len(CORPUS_COLORS)]
    /\ VocabularyDistinct
    /\ result[2] = searchCall.color

\* this step is a run of the color-mapping job
JobRan == colorJob'.runs = colorJob.runs + 1

\* C21: a run of the color-mapping job that completes leaves, for every color
\* of the catalog, the one row of that source holding the target the job
\* computed, whatever target the row held before, and leaves the other rows as
\* they were; a run on the catalog the previous run read, with the same
\* encoder, leaves the table as the previous run left it.
C21_RerunReplacesAndIsIdempotent ==
    [][JobRan =>
          /\ ~colorJob'.raised =>
                /\ DOMAIN colors' = DOMAIN colors \cup {c[1] : c \in query_colors}
                /\ \A c \in query_colors :
                      colors'[c[1]] = BestMatch(ColorQuery(c[1]))
                /\ \A c \in DOMAIN colors :
                      Some(c) \notin query_colors => colors'[c] = colors[c]
          /\ (colorJob.runs > 0 /\ colorJob.catalog = attributes) =>
                colors' = colors]_vars

\* the job ran twice and completed on a catalog with crimson, over a table
\* that mapped crimson to navy: the row of crimson holds another target now
\* and the row of teal is still there
C21_Witness ==
    /\ colorJob.runs = 2
    /\ ~colorJob.raised
    /\ colorJob.catalog = attributes
    /\ \E sku \in DOMAIN attributes : attributes[sku].color = Some("crimson")
    /\ "teal" \in DOMAIN colors
    /\ colors["crimson"] # StaleColors["crimson"]

\* C26: once the color-mapping job has run on the catalog, it has completed
\* without an error, whatever the catalog (an item without a color included),
\* and item.colors holds for every color of the catalog a row whose
\* target_color is a member of CORPUS_COLORS.
C26_JobMapsEveryCatalogColor ==
    (colorJob.runs > 0 /\ colorJob.catalog = attributes) =>
        /\ ~colorJob.raised
        /\ \A sku \in DOMAIN attributes :
              attributes[sku].color # NULL =>
                 /\ attributes[sku].color[1] \in DOMAIN colors
                 /\ colors[attributes[sku].color[1]] \in CorpusSet

====
